---- MODULE Spec2Model ----
(***************************************************************************)
(* PNGAnalyzer (src/src/png-analyzer.ts): signature check, chunk walk and  *)
(* the chunk parsers, as a state machine whose steps are the stretches of  *)
(* analyze() between two awaited byte reads.                               *)
(*                                                                         *)
(* Representation.  A Uint8Array is a sequence of 0..255 (index i of the   *)
(* code is index i+1 here).  A JavaScript string is the sequence of its    *)
(* character codes.  null is the empty sequence and a present object is a  *)
(* one-element sequence holding it.  The Japanese texts of the source      *)
(* (error messages, colour labels) are written in ASCII: the messages as    *)
(* names, the labels in romaji.  fn, arg and ret hold a single call of one *)
(* of the helper methods, for the properties of those methods alone.       *)
(*                                                                         *)
(* PNGMetadataExtractor.handleFile (src/src/main.ts) runs around analyze(): *)
(* hpc is the position of each handleFile call, the other application      *)
(* variables are the fields of the extractor and what the page shows.      *)
(* The fetch handler of the service worker (src/unnamed/part_000) works on *)
(* cache and events.                                                       *)
(***************************************************************************)
EXTENDS Integers, Sequences, FiniteSets, TLC

VARIABLES file, pc, offset, header, data, metadata, result, err, nreads,
          fn, arg, ret,
          hpc, currentMetadata, currentImageUrl, revokedUrls, displayed, loading,
          errorShown, exported,
          cache, events

\* the application around the analyzer, and the service worker
appVars == <<hpc, currentMetadata, currentImageUrl, revokedUrls, displayed, loading,
             errorShown, exported>>
swVars == <<cache, events>>

vars == <<file, pc, offset, header, data, metadata, result, err, nreads, fn, arg, ret,
          appVars, swVars>>

\* ------------------------------------------------------------------ bounds
\* chunks laid out in an input file
MaxFileChunks == 3
\* records after which a walk that does not advance is cut off
MaxRecorded == 7

Calls == {1, 2}

\* ------------------------------------------------------------- arithmetic
Min(a, b) == IF a < b THEN a ELSE b
Max(a, b) == IF a > b THEN a ELSE b

\* 0-based element of a byte array
At(bytes, i) == bytes[i + 1]

\* Blob.slice(start, end): a negative position counts from the end, both
\* positions are clamped to 0..size, an empty span when end <= start.
BlobSlice(bytes, start, end) ==
  LET size == Len(bytes)
      rs == IF start < 0 THEN Max(size + start, 0) ELSE Min(start, size)
      re == IF end < 0 THEN Max(size + end, 0) ELSE Min(end, size)
      span == Max(re - rs, 0)
  IN  SubSeq(bytes, rs + 1, rs + span)

\* Uint8Array.prototype.slice(start, end): the same clamping rules
ArraySlice(bytes, start, end) == BlobSlice(bytes, start, end)

readBytes(f, start, length) == BlobSlice(f.bytes, start, start + length)

\* (b0 << 24) | (b1 << 16) | (b2 << 8) | b3 is an int32: with b0 >= 128 the
\* sign bit is set and the value is b0*2^24 + ... - 2^32.
Int32Of(b0, b1, b2, b3) ==
  (IF b0 >= 128 THEN b0 - 256 ELSE b0) * 16777216 + b1 * 65536 + b2 * 256 + b3

bytesToUint32(bytes, off) ==
  IF off + 3 >= Len(bytes) THEN 0
  ELSE Int32Of(At(bytes, off), At(bytes, off + 1), At(bytes, off + 2), At(bytes, off + 3))

\* the two bytes taken in the wrong order
bytesToUint16LittleEndian(bytes, off) ==
  IF off + 1 >= Len(bytes) THEN 0
  ELSE At(bytes, off) + At(bytes, off + 1) * 256

bytesToUint16(bytes, off) ==
  IF off + 1 >= Len(bytes) THEN 0
  ELSE At(bytes, off) * 256 + At(bytes, off + 1)

\* bytesToString(bytes, start, end): `end ?` is false for end = 0 as well as
\* for an omitted end (written NoEnd here), and then the slice runs to the
\* end of the array.
NoEnd == <<>>
bytesToString(bytes, start, end) ==
  IF end = NoEnd \/ end = <<0>> THEN ArraySlice(bytes, start, Len(bytes))
  ELSE ArraySlice(bytes, start, end[1])

\* ----------------------------------------------------------------- strings
HexDigit(d) == IF d < 10 THEN 48 + d ELSE 87 + d

RECURSIVE HexNat(_)
HexNat(n) == IF n < 16 THEN <<HexDigit(n)>> ELSE HexNat(n \div 16) \o <<HexDigit(n % 16)>>

\* Number.prototype.toString(16): a minus sign and the digits of |n|
ToString16(n) == IF n < 0 THEN <<45>> \o HexNat(0 - n) ELSE HexNat(n)

RECURSIVE DecNat(_)
DecNat(n) == IF n < 10 THEN <<48 + n>> ELSE DecNat(n \div 10) \o <<48 + (n % 10)>>

\* Number.prototype.toString() of an integer
ToString10(n) == IF n < 0 THEN <<45>> \o DecNat(0 - n) ELSE DecNat(n)

\* String.prototype.padStart(width, "0")
padStart(s, width) ==
  [i \in 1..(Max(width - Len(s), 0)) |-> 48] \o s

RECURSIVE bytesToHex(_)
bytesToHex(bytes) ==
  IF bytes = <<>> THEN <<>>
  ELSE padStart(ToString16(Head(bytes)), 2) \o bytesToHex(Tail(bytes))

\* --------------------------------------------------------- chunk type tags
IHDR == <<73, 72, 68, 82>>
tEXt == <<116, 69, 88, 116>>
zTXt == <<122, 84, 88, 116>>
iTXt == <<105, 84, 88, 116>>
tIME == <<116, 73, 77, 69>>
IEND == <<73, 69, 78, 68>>
IDAT == <<73, 68, 65, 84>>

expectedSignature == <<137, 80, 78, 71, 13, 10, 26, 10>>

\* the two thrown errors
InvalidSignature == "InvalidSignature"
MalformedIHDR == "MalformedIHDR"

\* ----------------------------------------------------------------- parsers
\* colorTypes: the label of each known colour type code, the katakana of
\* the source in romaji.  A label is the pair of its fixed text and the
\* digits spliced into it (none for a known code).
colorTypes ==
  [v \in {0, 2, 3, 4, 6} |->
     CASE v = 0 -> "gureesukeeru"
       [] v = 2 -> "RGB"
       [] v = 3 -> "paretto"
       [] v = 4 -> "gureesukeeru + arufa"
       [] v = 6 -> "RGB + arufa"]

\* colorTypes[v] || `fumei (${v})`
colorTypeLabel(v) ==
  IF v \in DOMAIN colorTypes
    THEN [text |-> colorTypes[v], arg |-> <<>>]
    ELSE [text |-> "fumei (", arg |-> ToString10(v)]

\* the size test of line 92 off by one: a payload of exactly 13 bytes
\* rejected
parseIHDRThrowsAt13(d) == Len(d) <= 13

\* parseIHDR throws exactly when the payload is shorter than 13 bytes (the
\* null checks that follow cannot fail on a Uint8Array of 13 or more bytes)
parseIHDRThrows(d) == Len(d) < 13

\* the colour type read one byte early, from the bit depth
parseIHDRColorAt8(d) ==
  [width             |-> bytesToUint32(d, 0),
   height            |-> bytesToUint32(d, 4),
   bitDepth          |-> At(d, 8),
   colorType         |-> colorTypeLabel(At(d, 8)),
   compressionMethod |-> At(d, 10),
   filterMethod      |-> At(d, 11),
   interlaceMethod   |-> At(d, 12)]

parseIHDR(d) ==
  [width             |-> bytesToUint32(d, 0),
   height            |-> bytesToUint32(d, 4),
   bitDepth          |-> At(d, 8),
   colorType         |-> colorTypeLabel(At(d, 9)),
   compressionMethod |-> At(d, 10),
   filterMethod      |-> At(d, 11),
   interlaceMethod   |-> At(d, 12)]

\* Uint8Array.prototype.indexOf(0): 0-based, -1 when absent
indexOfNull(d) ==
  IF \E i \in 1..Len(d) : d[i] = 0
    THEN (CHOOSE i \in 1..Len(d) : d[i] = 0 /\ \A j \in 1..(i - 1) : d[j] # 0) - 1
    ELSE 0 - 1

\* the loop of lines 147-151: 0-based positions of the first four null bytes
RECURSIVE nullParts(_, _, _)
nullParts(d, i, parts) ==
  IF i < Len(d) /\ Len(parts) < 4
    THEN nullParts(d, i + 1, IF At(d, i) = 0 THEN Append(parts, i) ELSE parts)
    ELSE parts

\* a value of PNGTextMetadata: a plain string (tEXt) or the iTXt record
plainText(s) ==
  [plain |-> TRUE, text |-> s, language |-> <<>>, translatedKeyword |-> <<>>,
   compressed |-> FALSE]

\* result[k] = v on the object literal {}: an own property, except for the
\* key "__proto__", an accessor of Object.prototype, under which no own
\* property is created
protoKey == <<95, 95, 112, 114, 111, 116, 111, 95, 95>>
oneEntry(k, v) == IF k = protoKey THEN [x \in {} |-> v] ELSE [x \in {k} |-> v]

noEntries == [x \in {} |-> plainText(<<>>)]

\* a parser that reads a zTXt payload as it reads a tEXt payload
parseTextChunkZTXtAsText(d, chunkType) ==
  IF chunkType \in {tEXt, zTXt} /\ indexOfNull(d) # 0 - 1
    THEN oneEntry(bytesToString(d, 0, <<indexOfNull(d)>>),
                  plainText(bytesToString(d, indexOfNull(d) + 1, NoEnd)))
    ELSE noEntries

parseTextChunk(d, chunkType) ==
  IF chunkType = tEXt THEN
    LET nullIndex == indexOfNull(d) IN
    IF nullIndex # 0 - 1
      THEN oneEntry(bytesToString(d, 0, <<nullIndex>>),
                    plainText(bytesToString(d, nullIndex + 1, NoEnd)))
      ELSE noEntries
  ELSE IF chunkType = iTXt THEN
    LET parts == nullParts(d, 0, <<>>) IN
    IF Len(parts) >= 4
      THEN LET keyword == bytesToString(d, 0, <<parts[1]>>)
               compressionFlag == IF parts[1] + 1 < Len(d) THEN At(d, parts[1] + 1) ELSE 0
               languageTag == bytesToString(d, parts[2] + 1, <<parts[3]>>)
               translatedKeyword == bytesToString(d, parts[3] + 1, <<parts[4]>>)
               text == bytesToString(d, parts[4] + 1, NoEnd)
           IN  oneEntry(keyword,
                        [plain |-> FALSE, text |-> text, language |-> languageTag,
                         translatedKeyword |-> translatedKeyword,
                         compressed |-> (compressionFlag = 1)])
      ELSE noEntries
  ELSE noEntries

\* a merge that keeps the entry the target already has
objectAssignTargetWins(target, source) ==
  [k \in (DOMAIN target) \cup (DOMAIN source) |->
     IF k \in DOMAIN target THEN target[k] ELSE source[k]]

\* Object.assign(target, source)
objectAssign(target, source) ==
  [k \in (DOMAIN target) \cup (DOMAIN source) |->
     IF k \in DOMAIN source THEN source[k] ELSE target[k]]

\* parseTime: null unless the payload has exactly 7 bytes
parseTime(d) ==
  IF Len(d) # 7 THEN <<>>
  ELSE LET year == bytesToUint16(d, 0)
           month == At(d, 2)
           day == At(d, 3)
           hour == At(d, 4)
           minute == At(d, 5)
           second == At(d, 6)
       IN  <<[year |-> year, month |-> month, day |-> day, hour |-> hour,
              minute |-> minute, second |-> second,
              datetime |->
                padStart(ToString10(year), 4) \o <<45>> \o
                padStart(ToString10(month), 2) \o <<45>> \o
                padStart(ToString10(day), 2) \o <<32>> \o
                padStart(ToString10(hour), 2) \o <<58>> \o
                padStart(ToString10(minute), 2) \o <<58>> \o
                padStart(ToString10(second), 2)]>>

\* ------------------------------------------------------------ analyze()
\* a signature loop that stops after the four bytes 89 50 4e 47
signatureMatchesFirst4(signature) ==
  \A i \in 0..3 : i < Len(signature) /\ At(signature, i) = At(expectedSignature, i)

\* the signature loop of lines 226-230: signature[i] is undefined, hence
\* different, when the file has fewer than i+1 bytes
signatureMatches(signature) ==
  \A i \in 0..7 : i < Len(signature) /\ At(signature, i) = At(expectedSignature, i)

newMetadata(f) ==
  [fileName           |-> f.name,
   fileSize           |-> Len(f.bytes),
   chunks             |-> <<>>,
   imageInfo          |-> <<>>,
   textMetadata       |-> noEntries,
   timestamp          |-> <<>>,
   physicalDimensions |-> <<>>,
   rawChunks          |-> <<>>]

\* line 249
headerTruncated(off, size) == off + 8 > size

\* line 256
chunkTruncated(off, length, size) == off + 8 + length + 4 > size

\* lines 263-268
chunkInfo(type, length, d, crc) ==
  [type        |-> type,
   length      |-> length,
   crc         |-> <<48, 120>> \o padStart(ToString16(crc), 8),
   dataPreview |-> bytesToHex(ArraySlice(d, 0, Min(32, Len(d)))) \o
                   (IF Len(d) > 32 THEN <<46, 46, 46>> ELSE <<>>)]

\* lines 272-277
rawChunk(type, length, d, crc) ==
  [type |-> type, length |-> length, data |-> bytesToHex(d), crc |-> crc]

\* the raw record pushed only for a chunk that has a payload
recordChunkRawNonEmpty(md, type, length, d, crc) ==
  [md EXCEPT !.chunks = Append(@, chunkInfo(type, length, d, crc)),
             !.rawChunks = IF d = <<>> THEN @ ELSE Append(@, rawChunk(type, length, d, crc))]

\* the two pushes of lines 269 and 272
recordChunk(md, type, length, d, crc) ==
  [md EXCEPT !.chunks = Append(@, chunkInfo(type, length, d, crc)),
             !.rawChunks = Append(@, rawChunk(type, length, d, crc))]

\* the value line 289 assigns to metadata.timestamp
timestampAfter(prior, d) == parseTime(d)

\* a dispatch that fills imageInfo and timestamp only while they are null
dispatchFirstWins(md, type, d) ==
  IF type = IHDR
    THEN [md EXCEPT !.imageInfo = IF @ = <<>> THEN <<parseIHDR(d)>> ELSE @]
  ELSE IF type \in {tEXt, zTXt, iTXt}
    THEN [md EXCEPT !.textMetadata = objectAssign(@, parseTextChunk(d, type))]
  ELSE IF type = tIME
    THEN [md EXCEPT !.timestamp = IF @ = <<>> THEN timestampAfter(@, d) ELSE @]
  ELSE md

\* lines 280-293 for a chunk whose parser does not throw
dispatch(md, type, d) ==
  IF type = IHDR THEN [md EXCEPT !.imageInfo = <<parseIHDR(d)>>]
  ELSE IF type \in {tEXt, zTXt, iTXt}
    THEN [md EXCEPT !.textMetadata = objectAssign(@, parseTextChunk(d, type))]
  ELSE IF type = tIME THEN [md EXCEPT !.timestamp = timestampAfter(@, d)]
  ELSE md

\* a timestamp parser that throws on a payload of the wrong size, as the
\* IHDR parser does
dispatchThrowsOnBadTime(type, d) ==
  \/ type = IHDR /\ parseIHDRThrows(d)
  \/ type = tIME /\ Len(d) # 7

\* line 280-282: the only throw of the walk
dispatchThrows(type, d) == type = IHDR /\ parseIHDRThrows(d)

\* the terminal tag compared in the wrong case ("iend")
isTerminalLowerCase(type) == type = <<105, 101, 110, 100>>

\* line 290-293
isTerminal(type) == type = IEND

\* line 296
nextOffset(off, length) == off + 8 + length + 4

\* the cursor and the accumulator kept in fields of the analyzer, which
\* every call on it shares
sharedFrame(c) == 1

\* offset, metadata, header and data are locals of one invocation of
\* analyze (lines 233, 244, 251, 258): call c works on its own frame.
frameOf(c) == c

headerLength(h) == bytesToUint32(h, 0)
headerType(h) == bytesToString(h, 4, <<8>>)

\* the loop test of line 247 and the break of line 249, then either the
\* header read of line 251 is issued or line 299 returns md
LoopHead(c, off, md) ==
  IF off < Len(file[c].bytes) /\ ~headerTruncated(off, Len(file[c].bytes))
    THEN /\ pc' = [pc EXCEPT ![c] = "header"]
         /\ nreads' = [nreads EXCEPT ![c] = @ + 1]
         /\ UNCHANGED result
    ELSE /\ pc' = [pc EXCEPT ![c] = "done"]
         /\ result' = [result EXCEPT ![c] = <<md>>]
         /\ UNCHANGED nreads

\* analyze is called: line 222 issues the read of the signature
Start(c) ==
  /\ pc[c] = "start"
  /\ pc' = [pc EXCEPT ![c] = "sig"]
  /\ nreads' = [nreads EXCEPT ![c] = @ + 1]
  /\ UNCHANGED <<appVars, swVars, fn, arg, ret, file, offset, header, data, metadata, result, err>>

\* lines 222-251: the signature arrives and is checked, the accumulator and
\* the cursor are set up, the loop is entered
CheckSignature(c) ==
  /\ pc[c] = "sig"
  /\ LET signature == readBytes(file[c], 0, 8) IN
     IF ~signatureMatches(signature)
       THEN /\ pc' = [pc EXCEPT ![c] = "failed"]
            /\ err' = [err EXCEPT ![c] = <<InvalidSignature>>]
            /\ UNCHANGED <<offset, metadata, result, nreads>>
       ELSE /\ metadata' = [metadata EXCEPT ![frameOf(c)] = <<newMetadata(file[c])>>]
            /\ offset' = [offset EXCEPT ![frameOf(c)] = 8]
            /\ LoopHead(c, 8, newMetadata(file[c]))
            /\ UNCHANGED err
  /\ UNCHANGED <<appVars, swVars, fn, arg, ret, file, header, data>>

\* lines 251-258: the header arrives, the chunk is bounds-checked and the
\* read of its payload is issued
ReadHeader(c) ==
  /\ pc[c] = "header"
  /\ LET h == readBytes(file[c], offset[frameOf(c)], 8) IN
     /\ header' = [header EXCEPT ![frameOf(c)] = h]
     /\ IF chunkTruncated(offset[frameOf(c)], headerLength(h), Len(file[c].bytes))
          THEN /\ pc' = [pc EXCEPT ![c] = "done"]
               /\ result' = [result EXCEPT ![c] = metadata[frameOf(c)]]
               /\ UNCHANGED nreads
          ELSE /\ pc' = [pc EXCEPT ![c] = "data"]
               /\ nreads' = [nreads EXCEPT ![c] = @ + 1]
               /\ UNCHANGED result
  /\ UNCHANGED <<appVars, swVars, fn, arg, ret, file, offset, data, metadata, err>>

\* lines 258-259: the payload arrives, the read of the CRC is issued
ReadData(c) ==
  /\ pc[c] = "data"
  /\ data' = [data EXCEPT ![frameOf(c)] =
                readBytes(file[c], offset[frameOf(c)] + 8, headerLength(header[frameOf(c)]))]
  /\ pc' = [pc EXCEPT ![c] = "crc"]
  /\ nreads' = [nreads EXCEPT ![c] = @ + 1]
  /\ UNCHANGED <<appVars, swVars, fn, arg, ret, file, offset, header, metadata, result, err>>

\* lines 259-299: the CRC arrives, the chunk is recorded and dispatched, the
\* cursor advances and the loop is re-entered
ProcessChunk(c) ==
  /\ pc[c] = "crc"
  /\ metadata[frameOf(c)] # <<>>
  /\ Len(metadata[frameOf(c)][1].chunks) < MaxRecorded
  /\ LET off == offset[frameOf(c)]
         length == headerLength(header[frameOf(c)])
         type == headerType(header[frameOf(c)])
         d == data[frameOf(c)]
         crc == bytesToUint32(readBytes(file[c], off + 8 + length, 4), 0)
         md1 == recordChunk(metadata[frameOf(c)][1], type, length, d, crc)
     IN  IF dispatchThrows(type, d)
           THEN /\ pc' = [pc EXCEPT ![c] = "failed"]
                /\ err' = [err EXCEPT ![c] = <<MalformedIHDR>>]
                /\ metadata' = [metadata EXCEPT ![frameOf(c)] = <<md1>>]
                /\ UNCHANGED <<offset, result, nreads>>
           ELSE LET md2 == dispatch(md1, type, d) IN
                /\ metadata' = [metadata EXCEPT ![frameOf(c)] = <<md2>>]
                /\ UNCHANGED err
                /\ IF isTerminal(type)
                     THEN /\ pc' = [pc EXCEPT ![c] = "done"]
                          /\ result' = [result EXCEPT ![c] = <<md2>>]
                          /\ UNCHANGED <<offset, nreads>>
                     ELSE /\ offset' = [offset EXCEPT ![frameOf(c)] = nextOffset(off, length)]
                          /\ LoopHead(c, nextOffset(off, length), md2)
  /\ UNCHANGED <<appVars, swVars, fn, arg, ret, file, header, data>>

Next ==
  \E c \in Calls :
    \/ Start(c)
    \/ CheckSignature(c)
    \/ ReadHeader(c)
    \/ ReadData(c)
    \/ ProcessChunk(c)

\* ------------------------------------------------------------------ inputs
be4(n) == <<0, 0, 0, n>>

chunkBytes(lengthField, type, payload, crcField) ==
  lengthField \o type \o payload \o crcField

cIHDR == chunkBytes(be4(13), IHDR, <<0, 0, 0, 100, 0, 0, 0, 50, 8, 2, 0, 0, 0>>, <<1, 2, 3, 4>>)
cIHDRshort == chunkBytes(be4(12), IHDR, <<0, 0, 0, 100, 0, 0, 0, 50, 8, 2, 0, 0>>, <<1, 2, 3, 4>>)
cTIME == chunkBytes(be4(7), tIME, <<7, 232, 1, 15, 10, 30, 45>>, <<5, 6, 7, 8>>)
cTIMEshort == chunkBytes(be4(6), tIME, <<7, 232, 1, 15, 10, 30>>, <<5, 6, 7, 8>>)
cTEXT == chunkBytes(be4(3), tEXt, <<65, 0, 74>>, <<9, 9, 9, 9>>)
cIEND == chunkBytes(be4(0), IEND, <<>>, <<174, 66, 96, 130>>)
cIDAT == chunkBytes(be4(2), IDAT, <<1, 2>>, <<0, 0, 0, 7>>)
\* length fields with the most significant bit set: ff ff ff f4, ff ff ff ef
cStall == <<255, 255, 255, 244>> \o IDAT
cBackIHDR == <<255, 255, 255, 239>> \o IHDR

ChunkLibrary ==
  {cIHDR, cIHDRshort, cTIME, cTIMEshort, cTEXT, cIEND, cIDAT, cStall, cBackIHDR}

RECURSIVE Flatten(_)
Flatten(ss) == IF ss = <<>> THEN <<>> ELSE Head(ss) \o Flatten(Tail(ss))

Layouts == UNION {[1..n -> ChunkLibrary] : n \in 0..MaxFileChunks}

\* what follows the last whole chunk: nothing, fewer than 8 stray bytes, or
\* a chunk cut off inside its payload
Tails == {<<>>, <<0, 0, 0>>, be4(5) \o IDAT \o <<1>>}

Bodies == {Flatten(l) \o t : l \in Layouts, t \in Tails}

\* the signature with byte i (1-based) changed
BadSignature(i) == [expectedSignature EXCEPT ![i] = (@ + 1) % 256]

BadStarts ==
  {BadSignature(i) : i \in 1..8} \cup {SubSeq(expectedSignature, 1, k) : k \in {0, 4, 7}}

\* chunks that repeat a type with another payload, text chunks that share
\* or do not share a keyword, payloads of 32 and 33 bytes
cIHDR2 == chunkBytes(be4(13), IHDR, <<0, 0, 0, 7, 0, 0, 0, 9, 16, 6, 0, 0, 1>>, <<1, 2, 3, 5>>)
cTIME2 == chunkBytes(be4(7), tIME, <<7, 208, 12, 31, 23, 59, 58>>, <<5, 6, 7, 9>>)
cTEXT2 == chunkBytes(be4(3), tEXt, <<65, 0, 75>>, <<9, 9, 9, 8>>)
cTEXTB == chunkBytes(be4(3), tEXt, <<66, 0, 74>>, <<9, 9, 9, 7>>)
cITXT == chunkBytes(be4(7), iTXt, <<65, 0, 1, 0, 0, 0, 72>>, <<9, 9, 9, 6>>)
cZTXT == chunkBytes(be4(4), zTXt, <<66, 0, 0, 75>>, <<9, 9, 9, 5>>)
cIDAT32 == chunkBytes(be4(32), IDAT, [i \in 1..32 |-> i], <<0, 0, 0, 8>>)
cIDAT33 == chunkBytes(be4(33), IDAT, [i \in 1..33 |-> 255 - i], <<0, 0, 0, 9>>)

ExtraLayouts ==
  {<<cIHDR, cIHDR2, cIEND>>, <<cIHDR2, cIHDR, cIHDR2>>, <<cIHDR, cIHDR2, cIHDRshort>>,
   <<cTIME, cTIME2, cIEND>>, <<cTIME2, cTIME>>, <<cIHDR, cTIME, cIHDR2, cTIME2>>,
   <<cTEXT, cTEXT2, cIEND>>, <<cTEXT, cTEXTB, cTEXT2>>, <<cTEXT, cITXT, cTEXTB>>,
   <<cITXT, cTEXT, cIEND>>, <<cTEXTB, cITXT, cTEXT2, cTEXT>>,
   <<cTEXT, cZTXT, cIEND>>, <<cIHDR, cTIME, cZTXT, cIDAT>>,
   <<cIDAT33, cIEND>>, <<cIDAT32, cIDAT33, cIDAT>>}

Inputs ==
  {expectedSignature \o b : b \in Bodies}
    \cup {s \o b : s \in BadStarts, b \in {<<>>, cIHDR \o cIEND}}
    \cup {expectedSignature \o Flatten(l) : l \in ExtraLayouts}

NoFile == [name |-> "", bytes |-> <<>>]

\* main.ts lines 18-19: no metadata, no image URL; nothing shown
InitAppIdle ==
  /\ hpc = [c \in Calls |-> "idle"]
  /\ currentMetadata = <<>>
  /\ currentImageUrl = <<>>
  /\ revokedUrls = {}
  /\ displayed = <<>>
  /\ loading = FALSE
  /\ errorShown = <<>>
  /\ exported = <<>>

\* no fetch event yet, nothing cached
InitSwIdle ==
  /\ cache = <<>>
  /\ events = <<>>

InitCommon ==
  /\ offset = [c \in Calls |-> 0]
  /\ header = [c \in Calls |-> <<>>]
  /\ data = [c \in Calls |-> <<>>]
  /\ metadata = [c \in Calls |-> <<>>]
  /\ result = [c \in Calls |-> <<>>]
  /\ err = [c \in Calls |-> <<>>]
  /\ nreads = [c \in Calls |-> 0]
  /\ fn = "none"
  /\ arg = <<>>
  /\ ret = <<>>
  /\ InitAppIdle
  /\ InitSwIdle

\* one call of analyze on any input; the second call is never made
Init ==
  /\ \E b \in Inputs : file = [c \in Calls |-> IF c = 1 THEN [name |-> "a.png", bytes |-> b] ELSE NoFile]
  /\ pc = [c \in Calls |-> IF c = 1 THEN "start" ELSE "idle"]
  /\ InitCommon

Spec == Init /\ [][Next]_vars

\* --------------------------------------------- analyze() run to completion
\* The same code as the actions above, run without suspension: the outcome
\* of one call that nothing interleaves with.  A walk that has recorded
\* MaxRecorded chunks is cut off, as in ProcessChunk.
RECURSIVE walkFrom(_, _, _)
walkFrom(f, off, md) ==
  LET size == Len(f.bytes)
      h == readBytes(f, off, 8)
      length == headerLength(h)
      type == headerType(h)
      d == readBytes(f, off + 8, length)
      crc == bytesToUint32(readBytes(f, off + 8 + length, 4), 0)
      md1 == recordChunk(md, type, length, d, crc)
      md2 == dispatch(md1, type, d)
  IN  IF ~(off < size) \/ headerTruncated(off, size)
        THEN [pc |-> "done", result |-> <<md>>, err |-> <<>>]
      ELSE IF chunkTruncated(off, length, size)
        THEN [pc |-> "done", result |-> <<md>>, err |-> <<>>]
      ELSE IF Len(md.chunks) >= MaxRecorded
        THEN [pc |-> "crc", result |-> <<>>, err |-> <<>>]
      ELSE IF dispatchThrows(type, d)
        THEN [pc |-> "failed", result |-> <<>>, err |-> <<MalformedIHDR>>]
      ELSE IF isTerminal(type)
        THEN [pc |-> "done", result |-> <<md2>>, err |-> <<>>]
      ELSE walkFrom(f, nextOffset(off, length), md2)

analyzeAlone(f) ==
  IF ~signatureMatches(readBytes(f, 0, 8))
    THEN [pc |-> "failed", result |-> <<>>, err |-> <<InvalidSignature>>]
    ELSE walkFrom(f, 8, newMetadata(f))

\* ------------------------------------------------- two calls in flight
\* chunks laid out in an input of the two-call specification
MaxParChunks == 2

ParLibrary == {cIHDR, cTIMEshort, cIEND}

ParLayouts == UNION {[1..n -> ParLibrary] : n \in 0..MaxParChunks}

ParFiles ==
  {[name |-> "a.png", bytes |-> expectedSignature \o Flatten(l)] : l \in ParLayouts}
    \cup {[name |-> "a.png", bytes |-> BadSignature(8) \o cIEND],
          [name |-> "a.png", bytes |-> expectedSignature \o cTIME \o cStall \o cIEND],
          [name |-> "a.png", bytes |-> expectedSignature \o cIHDRshort \o cIEND],
          [name |-> "b.png", bytes |-> expectedSignature \o cIHDR \o cIEND]}

\* two calls of analyze, on the same PNGAnalyzer or on two, are started and
\* their steps interleave at the awaited reads
InitPar ==
  /\ file \in [Calls -> ParFiles]
  /\ pc = [c \in Calls |-> "start"]
  /\ InitCommon

SpecPar == InitPar /\ [][Next]_vars

\* ---------------------------------------------------------------- claims
Finished(c) == pc[c] \in {"done", "failed"}

FirstEightMatch(b) == Len(b) >= 8 /\ SubSeq(b, 1, 8) = expectedSignature

\* the records of an accumulator or of a returned Metadata (none when absent)
chunksOf(m) == IF m = <<>> THEN <<>> ELSE m[1].chunks
rawChunksOf(m) == IF m = <<>> THEN <<>> ELSE m[1].rawChunks

\* C1: analyze fails with the invalid-signature error exactly when the first
\* 8 bytes of the file are not 89 50 4e 47 0d 0a 1a 0a (a shorter file counts
\* as different); a call that failed this way returned no Metadata, built no
\* accumulator and issued no read but the one of the signature.
C1_InvalidSignatureIff ==
  \A c \in Calls :
    /\ err[c] = <<InvalidSignature>> =>
         /\ ~FirstEightMatch(file[c].bytes)
         /\ pc[c] = "failed"
         /\ result[c] = <<>>
         /\ metadata[c] = <<>>
         /\ nreads[c] = 1
    /\ (pc[c] \in {"header", "data", "crc", "done", "failed"} /\ ~FirstEightMatch(file[c].bytes)) =>
         err[c] = <<InvalidSignature>>

\* a call failed on a file of 8 bytes or more whose only wrong byte is the 8th
C1_Witness ==
  \E c \in Calls :
    /\ err[c] = <<InvalidSignature>>
    /\ Len(file[c].bytes) >= 8
    /\ SubSeq(file[c].bytes, 1, 7) = SubSeq(expectedSignature, 1, 7)

\* C2: analyze fails exactly when the signature check fails or the walk
\* reaches an IHDR chunk whose length field (an unsigned 32-bit number) is
\* below 13: a failed call has one of the two causes, and a call that
\* returned has neither.
C2_FailsOnlyOnSignatureOrShortIHDR ==
  \A c \in Calls :
    /\ pc[c] = "failed" =>
         \/ ~FirstEightMatch(file[c].bytes)
         \/ /\ headerType(header[c]) = IHDR
            /\ headerLength(header[c]) \in 0..12
    /\ pc[c] = "done" =>
         /\ FirstEightMatch(file[c].bytes)
         /\ \A i \in 1..Len(chunksOf(result[c])) :
              ~(chunksOf(result[c])[i].type = IHDR /\ chunksOf(result[c])[i].length \in 0..12)

Aligned(m) ==
  /\ Len(chunksOf(m)) = Len(rawChunksOf(m))
  /\ \A i \in 1..Len(chunksOf(m)) :
       /\ chunksOf(m)[i].type = rawChunksOf(m)[i].type
       /\ chunksOf(m)[i].length = rawChunksOf(m)[i].length

C4_IENDStopsWalk ==
  \A c \in Calls :
    \A i \in 1..Len(chunksOf(metadata[c])) :
      chunksOf(metadata[c])[i].type = IEND =>
        /\ i = Len(chunksOf(metadata[c]))
        /\ rawChunksOf(metadata[c])[Len(rawChunksOf(metadata[c]))].type = IEND
        /\ pc[c] = "done"
        /\ result[c] = metadata[c]

\* a call returned at an IEND chunk that a whole in-bounds chunk follows
C4_Witness ==
  \E c \in Calls :
    /\ pc[c] = "done"
    /\ chunksOf(result[c]) # <<>>
    /\ chunksOf(result[c])[Len(chunksOf(result[c]))].type = IEND
    /\ LET after == nextOffset(offset[c], headerLength(header[c]))
           h == readBytes(file[c], after, 8)
       IN  /\ Len(h) = 8
           /\ headerLength(h) >= 0
           /\ ~chunkTruncated(after, headerLength(h), Len(file[c].bytes))

\* the length field of header h, read as the unsigned 32-bit number the file
\* declares, puts the end of the chunk beyond the file: a field with its
\* most significant bit set is at least 2^31, more than any file size here
DeclaredExtentExceeds(h, off, size) ==
  \/ Len(h) >= 4 /\ h[1] >= 128
  \/ off + 8 + headerLength(h) + 4 > size

\* C5: when fewer than 8 bytes remain at the current offset no header is
\* read, and when the declared extent offset + 8 + length + 4 of the chunk
\* at the current offset exceeds the file size the walk stops there: the
\* call returns the accumulator unchanged, with no record added and no error.
C5_TruncatedChunkStopsWalk ==
  /\ [](\A c \in Calls : pc[c] = "header" => offset[c] + 8 <= Len(file[c].bytes))
  /\ [][\A c \in Calls :
          (/\ pc[c] = "header"
           /\ pc'[c] # "header"
           /\ DeclaredExtentExceeds(readBytes(file[c], offset[c], 8), offset[c], Len(file[c].bytes))) =>
            /\ pc'[c] = "done"
            /\ err'[c] = <<>>
            /\ metadata'[c] = metadata[c]
            /\ result'[c] = metadata[c]]_vars

\* C6: each completed iteration of the walk (a chunk recorded that is not
\* IEND and did not make the IHDR parser throw) strictly increases offset.
C6_OffsetStrictlyIncreases ==
  [][\A c \in Calls :
       (/\ pc[c] = "crc"
        /\ pc'[c] \in {"header", "done"}
        /\ ~isTerminal(headerType(header[c]))) =>
          offset'[c] > offset[c]]_vars

\* C7: processing a tIME chunk whose payload does not have 7 bytes leaves
\* timestamp at the value it had before that chunk.
C7_BadTimeKeepsTimestamp ==
  [][\A c \in Calls :
       (/\ pc[c] = "crc"
        /\ pc'[c] # "crc"
        /\ headerType(header[c]) = tIME
        /\ Len(data[c]) # 7) =>
          metadata'[c][1].timestamp = metadata[c][1].timestamp]_vars

\* the walk of a returned call ended where the code lets it end: at IEND, at
\* fewer than 8 remaining bytes, or at a chunk that does not fit the file
StoppedAtEnd(c) ==
  \/ chunksOf(result[c])[Len(chunksOf(result[c]))].type = IEND
  \/ offset[c] + 8 > Len(file[c].bytes)
  \/ chunkTruncated(offset[c], headerLength(readBytes(file[c], offset[c], 8)), Len(file[c].bytes))

\* C8: a tIME chunk whose payload does not have 7 bytes is recorded, the
\* timestamp parser returns the absent result for it, the call does not
\* fail, and the walk goes on to the next chunk; a call that returned after
\* such a chunk walked on to IEND or to the end of the in-bounds chunks.
C8_BadTimeDoesNotAbort ==
  /\ [][\A c \in Calls :
          (/\ pc[c] = "crc"
           /\ pc'[c] # "crc"
           /\ headerType(header[c]) = tIME
           /\ Len(data[c]) # 7) =>
            /\ parseTime(data[c]) = <<>>
            /\ pc'[c] \in {"header", "done"}
            /\ err'[c] = <<>>
            /\ chunksOf(metadata'[c]) =
                 Append(chunksOf(metadata[c]),
                        chunkInfo(tIME, headerLength(header[c]), data[c],
                                  bytesToUint32(readBytes(file[c], offset[c] + 8 + headerLength(header[c]), 4), 0)))
            /\ offset'[c] = offset[c] + 12 + headerLength(header[c])]_vars
  /\ [](\A c \in Calls :
          (/\ pc[c] = "done"
           /\ \E i \in 1..Len(rawChunksOf(result[c])) :
                /\ rawChunksOf(result[c])[i].type = tIME
                /\ Len(rawChunksOf(result[c])[i].data) # 14) =>
            StoppedAtEnd(c))

\* a call returned with an ill-sized tIME record followed by an IEND record
\* and with no timestamp
C8_Witness ==
  \E c \in Calls :
    /\ pc[c] = "done"
    /\ result[c][1].timestamp = <<>>
    /\ \E i \in 1..Len(chunksOf(result[c])) :
         /\ chunksOf(result[c])[i].type = tIME
         /\ chunksOf(result[c])[i].length = 6
         /\ i < Len(chunksOf(result[c]))
         /\ chunksOf(result[c])[Len(chunksOf(result[c]))].type = IEND

\* C9: two calls of analyze on the same bytes, name and size end in the same
\* outcome: the same Metadata field by field, or the same failure.
C9_SameInputSameOutcome ==
  (file[1] = file[2] /\ Finished(1) /\ Finished(2)) =>
    /\ pc[1] = pc[2]
    /\ result[1] = result[2]
    /\ err[1] = err[2]

\* both calls returned a Metadata with an image header for the same file
C9_Witness ==
  /\ file[1] = file[2]
  /\ pc[1] = "done"
  /\ pc[2] = "done"
  /\ result[1][1].imageInfo # <<>>
  /\ Len(chunksOf(result[2])) >= 2

\* C10: when the steps of two calls interleave at the awaited reads, a step
\* of one call changes no local of the other, and each call ends in the
\* outcome analyze has on its file when run alone.
C10_CallsIsolated ==
  /\ [][\E c \in Calls : \A o \in Calls \ {c} :
          /\ offset'[o] = offset[o]
          /\ metadata'[o] = metadata[o]
          /\ header'[o] = header[o]
          /\ data'[o] = data[o]
          /\ pc'[o] = pc[o]
          /\ result'[o] = result[o]
          /\ err'[o] = err[o]]_vars
  /\ [](\A c \in Calls :
          Finished(c) =>
            /\ pc[c] = analyzeAlone(file[c]).pc
            /\ result[c] = analyzeAlone(file[c]).result
            /\ err[c] = analyzeAlone(file[c]).err)

\* both calls are finished on different files, one with a Metadata and the
\* other with a failure, the failed one having been overtaken in mid-walk
C10_Witness ==
  /\ file[1].bytes # file[2].bytes
  /\ pc[1] = "done"
  /\ pc[2] = "failed"
  /\ Len(chunksOf(result[1])) >= 2
  /\ err[2] = <<MalformedIHDR>>

\* ------------------------------------------- one call of a helper method
\* byte values the helper inputs are built from
ByteSamples == {0, 1, 127, 128, 255}

Uint32Args ==
  {[bytes |-> b, off |-> o] :
     b \in [1..4 -> ByteSamples] \cup [1..5 -> {0, 200}] \cup {<<>>, <<1>>, <<1, 2, 3>>},
     o \in {0, 1, 2}}

\* IHDR payloads: every colour type byte, most significant bytes of width and
\* height on both sides of 128, and payloads that are too short or longer
IHDRArgs ==
  {[bytes |-> <<w, 0, 0, 100, h, 0, 1, 50, 8, v, 0, 0, 1>>] :
     w \in {0, 127, 128, 255}, h \in {0, 128}, v \in 0..255}
    \cup {[bytes |-> <<0, 0, 0, 100, 0, 0, 0, 50, 8, 99, 0, 0, 0, 7>>],
          [bytes |-> <<0, 0, 0, 100, 0, 0, 0, 50, 8, 2, 0, 0>>],
          [bytes |-> <<>>]}

\* "Author\0Jane" and "__proto__\0x"
payloadAuthor == <<65, 117, 116, 104, 111, 114, 0, 74, 97, 110, 101>>
payloadProto == protoKey \o <<0, 120>>

TextArgs ==
  {[bytes |-> d, type |-> tEXt] :
     d \in (UNION {[1..n -> {0, 65, 74}] : n \in 0..4}) \cup {payloadAuthor, payloadProto}}
    \cup {[bytes |-> d, type |-> iTXt] : d \in UNION {[1..n -> {0, 1, 72}] : n \in 0..6}}
    \cup {[bytes |-> d, type |-> t] : d \in {<<>>, <<65, 0, 74>>, <<72, 0, 0, 0, 0, 72>>},
                                      t \in {zTXt, IDAT}}

\* tIME payloads: years of one and two significant bytes, months and days
\* inside and outside the calendar, values of three digits, and payloads of
\* another size
TimeArgs ==
  {[bytes |-> <<y0, y1, mo, dd, hh, mi, ss>>] :
     y0 \in {0, 7, 255}, y1 \in {0, 232, 255}, mo \in {0, 1, 12, 13, 255},
     dd \in {1, 31, 100}, hh \in {0, 23}, mi \in {9, 59}, ss \in {0, 60}}
    \cup {[bytes |-> <<>>], [bytes |-> <<7, 232, 1, 15, 10, 30>>],
          [bytes |-> <<7, 232, 1, 15, 10, 30, 45, 0>>]}

\* bytesToString(bytes, start, end) with end given or omitted
StringArgs ==
  {[bytes |-> b, start |-> st, end |-> en] :
     b \in UNION {[1..n -> {0, 65, 200}] : n \in 0..3},
     st \in 0..3,
     en \in {NoEnd} \cup {<<e>> : e \in 0..3}}

ApplyBytesToUint32 ==
  /\ fn = "bytesToUint32"
  /\ ret = <<>>
  /\ ret' = <<bytesToUint32(arg.bytes, arg.off)>>
  /\ UNCHANGED <<appVars, swVars, file, pc, offset, header, data, metadata, result, err, nreads, fn, arg>>

\* parseIHDR returns the image info or throws
ApplyParseIHDR ==
  /\ fn = "parseIHDR"
  /\ ret = <<>>
  /\ ret' = IF parseIHDRThrows(arg.bytes)
              THEN <<[threw |-> TRUE]>>
              ELSE <<[threw |-> FALSE, value |-> parseIHDR(arg.bytes)]>>
  /\ UNCHANGED <<appVars, swVars, file, pc, offset, header, data, metadata, result, err, nreads, fn, arg>>

ApplyParseTextChunk ==
  /\ fn = "parseTextChunk"
  /\ ret = <<>>
  /\ ret' = <<parseTextChunk(arg.bytes, arg.type)>>
  /\ UNCHANGED <<appVars, swVars, file, pc, offset, header, data, metadata, result, err, nreads, fn, arg>>

\* parseTime returns the timestamp or null
ApplyParseTime ==
  /\ fn = "parseTime"
  /\ ret = <<>>
  /\ ret' = <<parseTime(arg.bytes)>>
  /\ UNCHANGED <<appVars, swVars, file, pc, offset, header, data, metadata, result, err, nreads, fn, arg>>

ApplyBytesToString ==
  /\ fn = "bytesToString"
  /\ ret = <<>>
  /\ ret' = <<bytesToString(arg.bytes, arg.start, arg.end)>>
  /\ UNCHANGED <<appVars, swVars, file, pc, offset, header, data, metadata, result, err, nreads, fn, arg>>

NextFn ==
  \/ ApplyBytesToUint32
  \/ ApplyParseIHDR
  \/ ApplyParseTextChunk
  \/ ApplyParseTime
  \/ ApplyBytesToString

InitFn ==
  /\ \/ fn = "bytesToUint32" /\ arg \in Uint32Args
     \/ fn = "parseIHDR" /\ arg \in IHDRArgs
     \/ fn = "parseTextChunk" /\ arg \in TextArgs
     \/ fn = "parseTime" /\ arg \in TimeArgs
     \/ fn = "bytesToString" /\ arg \in StringArgs
  /\ ret = <<>>
  /\ file = [c \in Calls |-> NoFile]
  /\ pc = [c \in Calls |-> "idle"]
  /\ offset = [c \in Calls |-> 0]
  /\ header = [c \in Calls |-> <<>>]
  /\ data = [c \in Calls |-> <<>>]
  /\ metadata = [c \in Calls |-> <<>>]
  /\ result = [c \in Calls |-> <<>>]
  /\ err = [c \in Calls |-> <<>>]
  /\ nreads = [c \in Calls |-> 0]
  /\ InitAppIdle
  /\ InitSwIdle

SpecFn == InitFn /\ [][NextFn]_vars

\* ------------------------------------------------- claims on the helpers
\* C12: bytesToUint32(bytes, offset) is b0*2^24 + b1*2^16 + b2*2^8 + b3, a
\* value in 0..2^32-1, when four bytes are available from offset, and 0
\* otherwise.  (r >= 0 with r div 2^24 = b0 and r mod 2^24 = the three low
\* bytes says r = b0*2^24 + ... without forming a number above 2^31.)
C12_BytesToUint32Unsigned ==
  (fn = "bytesToUint32" /\ ret # <<>>) =>
    IF arg.off + 4 <= Len(arg.bytes)
      THEN /\ ret[1] >= 0
           /\ ret[1] \div 16777216 = At(arg.bytes, arg.off)
           /\ ret[1] % 16777216 =
                At(arg.bytes, arg.off + 1) * 65536 + At(arg.bytes, arg.off + 2) * 256
                  + At(arg.bytes, arg.off + 3)
      ELSE ret[1] = 0

\* the colour type byte of an IHDR payload
colorByte(d) == d[10]

nullsOf(d) == {i \in 1..Len(d) : d[i] = 0}
kthNull(d, k) == CHOOSE i \in nullsOf(d) : Cardinality({j \in nullsOf(d) : j < i}) = k - 1

\* C17: for a tEXt payload with a null byte, first at index n (n = 0
\* included), parseTextChunk returns exactly one key, the characters of bytes
\* 0..n-1, whose value is the characters of bytes n+1..end; for a payload
\* without a null byte it returns the empty mapping.
C17_TextChunkKeywordAndText ==
  (fn = "parseTextChunk" /\ ret # <<>> /\ arg.type = tEXt) =>
    IF nullsOf(arg.bytes) = {}
      THEN DOMAIN ret[1] = {}
      ELSE LET p == kthNull(arg.bytes, 1) IN
           /\ DOMAIN ret[1] = {SubSeq(arg.bytes, 1, p - 1)}
           /\ ret[1][SubSeq(arg.bytes, 1, p - 1)] =
                plainText(SubSeq(arg.bytes, p + 1, Len(arg.bytes)))

\* C18: for an iTXt payload with fewer than four null bytes parseTextChunk
\* returns nothing; with first four nulls p1 < p2 < p3 < p4 it returns exactly
\* one entry, keyed by the bytes before p1, with compressed = (byte p1+1 is
\* 1), language = the bytes between p2 and p3, translatedKeyword = the bytes
\* between p3 and p4 and text = all bytes after p4.
C18_InternationalTextFields ==
  (fn = "parseTextChunk" /\ ret # <<>> /\ arg.type = iTXt) =>
    IF Cardinality(nullsOf(arg.bytes)) < 4
      THEN DOMAIN ret[1] = {}
      ELSE LET d == arg.bytes
               p1 == kthNull(d, 1)
               p2 == kthNull(d, 2)
               p3 == kthNull(d, 3)
               p4 == kthNull(d, 4)
           IN  /\ DOMAIN ret[1] = {SubSeq(d, 1, p1 - 1)}
               /\ ret[1][SubSeq(d, 1, p1 - 1)] =
                    [plain |-> FALSE,
                     text |-> SubSeq(d, p4 + 1, Len(d)),
                     language |-> SubSeq(d, p2 + 1, p3 - 1),
                     translatedKeyword |-> SubSeq(d, p3 + 1, p4 - 1),
                     compressed |-> (IF p1 + 1 <= Len(d) THEN d[p1 + 1] = 1 ELSE FALSE)]

\* ------------------------------------------- claims about recorded chunks
\* a step of call c that processes a chunk (lines 259-299)
Processes(c) == pc[c] = "crc" /\ pc'[c] # "crc"

\* the records that step pushed
lastChunk(m) == m[1].chunks[Len(m[1].chunks)]
lastRawChunk(m) == m[1].rawChunks[Len(m[1].rawChunks)]

isLowerHex(ch) == ch \in 48..57 \/ ch \in 97..102
hexValue(ch) == IF ch >= 97 THEN ch - 87 ELSE ch - 48
\* the bytes a string of hex digit pairs spells
hexToBytes(s) ==
  [i \in 1..(Len(s) \div 2) |-> hexValue(s[2 * i - 1]) * 16 + hexValue(s[2 * i])]

\* C11: for every recorded chunk, ChunkRecord.crc is "0x" followed by
\* exactly 8 lowercase hex digits that spell the 4 CRC bytes as an unsigned
\* big-endian number, and RawChunkRecord.crc is that unsigned value, in
\* 0..2^32-1.
C11_CrcUnsignedHex ==
  [][\A c \in Calls : Processes(c) =>
       LET b == readBytes(file[c], offset[c] + 8 + headerLength(header[c]), 4)
           text == lastChunk(metadata'[c]).crc
           r == lastRawChunk(metadata'[c]).crc
       IN  Len(b) = 4 =>
             /\ Len(text) = 10
             /\ SubSeq(text, 1, 2) = <<48, 120>>
             /\ \A i \in 3..10 : isLowerHex(text[i])
             /\ hexToBytes(SubSeq(text, 3, 10)) = b
             /\ r >= 0
             /\ r \div 16777216 = b[1]
             /\ r % 16777216 = b[2] * 65536 + b[3] * 256 + b[4]]_vars

\* C14: processing an IHDR chunk whose payload is shorter than 13 bytes
\* makes analyze fail with the malformed-IHDR error and return nothing,
\* the chunk and those before it already recorded; an IHDR payload of 13
\* bytes or more never raises the error.
C14_ShortIHDRFails ==
  [][\A c \in Calls : (Processes(c) /\ headerType(header[c]) = IHDR) =>
       IF Len(data[c]) < 13
         THEN /\ pc'[c] = "failed"
              /\ err'[c] = <<MalformedIHDR>>
              /\ result'[c] = <<>>
              /\ Len(metadata'[c][1].chunks) = Len(metadata[c][1].chunks) + 1
              /\ lastChunk(metadata'[c]).type = IHDR
         ELSE /\ pc'[c] # "failed"
              /\ err'[c] = <<>>]_vars

C14_Witness ==
  /\ pc[1] = "failed"
  /\ err[1] = <<MalformedIHDR>>
  /\ result[1] = <<>>
  /\ Len(data[1]) = 12
  /\ headerLength(header[1]) = 12
  /\ Len(chunksOf(metadata[1])) >= 2

indicesOf(raws, T) == {i \in 1..Len(raws) : raws[i].type = T}
firstOf(S) == CHOOSE i \in S : \A j \in S : i <= j
lastOf(S) == CHOOSE i \in S : \A j \in S : j <= i
payloadOf(raw) == hexToBytes(raw.data)

\* C15: the returned imageInfo is the parse of the last IHDR chunk
\* recorded, and with well-formed tIME chunks the returned timestamp is the
\* parse of the last tIME chunk recorded.
C15_LastIHDRAndTimeWin ==
  \A c \in Calls : result[c] # <<>> =>
    LET md == result[c][1]
        ih == indicesOf(md.rawChunks, IHDR)
        ti == indicesOf(md.rawChunks, tIME)
    IN  /\ IF ih = {} THEN md.imageInfo = <<>>
             ELSE md.imageInfo = <<parseIHDR(payloadOf(md.rawChunks[lastOf(ih)]))>>
        /\ (ti # {} /\ \A i \in ti : md.rawChunks[i].length = 7) =>
             md.timestamp = parseTime(payloadOf(md.rawChunks[lastOf(ti)]))

C15_Witness ==
  /\ pc[1] = "done"
  /\ result[1] # <<>>
  /\ LET md == result[1][1]
         ih == indicesOf(md.rawChunks, IHDR)
         ti == indicesOf(md.rawChunks, tIME)
     IN  /\ Cardinality(ih) >= 2
         /\ Cardinality(ti) >= 2
         /\ \A i \in ti : md.rawChunks[i].length = 7
         /\ md.imageInfo # <<parseIHDR(payloadOf(md.rawChunks[firstOf(ih)]))>>
         /\ md.imageInfo = <<parseIHDR(payloadOf(md.rawChunks[lastOf(ih)]))>>
         /\ md.timestamp # parseTime(payloadOf(md.rawChunks[firstOf(ti)]))
         /\ md.timestamp = parseTime(payloadOf(md.rawChunks[lastOf(ti)]))

\* C16 as stated: with several IHDR chunks the first occurrence wins, the
\* returned imageInfo is the parse of the first IHDR chunk encountered.
C16_FirstIHDRWins ==
  \A c \in Calls : result[c] # <<>> =>
    LET md == result[c][1]
        ih == indicesOf(md.rawChunks, IHDR)
    IN  ih # {} => md.imageInfo = <<parseIHDR(payloadOf(md.rawChunks[firstOf(ih)]))>>

\* C16: every IHDR chunk with a payload of at least 13 bytes that the walk
\* processes assigns its parse to imageInfo, whatever imageInfo held, and no
\* other chunk changes imageInfo.
C16_EachIHDROverwrites ==
  [][\A c \in Calls : Processes(c) =>
       IF headerType(header[c]) = IHDR /\ Len(data[c]) >= 13
         THEN metadata'[c][1].imageInfo = <<parseIHDR(data[c])>>
         ELSE metadata'[c][1].imageInfo = metadata[c][1].imageInfo]_vars

C16_Witness ==
  /\ pc[1] = "header"
  /\ metadata[1] # <<>>
  /\ LET md == metadata[1][1]
         ih == indicesOf(md.rawChunks, IHDR)
     IN  /\ Cardinality(ih) = 2
         /\ Len(md.rawChunks) = 2
         /\ md.imageInfo = <<parseIHDR(payloadOf(md.rawChunks[2]))>>
         /\ md.imageInfo # <<parseIHDR(payloadOf(md.rawChunks[1]))>>

\* the text chunks among the records, the entries each of them yields and
\* those that yield an entry under keyword k
textIndices(raws) == {i \in 1..Len(raws) : raws[i].type \in {tEXt, iTXt}}
entriesOf(raw) == parseTextChunk(payloadOf(raw), raw.type)
carriers(raws, k) == {i \in textIndices(raws) : k \in DOMAIN entriesOf(raws[i])}

\* C19: textMetadata holds one value per keyword carried by a recorded
\* tEXt or iTXt chunk and no other keyword; the value under a keyword is
\* the one yielded by the last recorded chunk that carried it, tEXt or iTXt;
\* so a chunk leaves the entries under every other keyword as they were.
C19_LastTextChunkPerKeyword ==
  \A c \in Calls : metadata[c] # <<>> =>
    LET md == metadata[c][1]
        raws == md.rawChunks
        tm == md.textMetadata
    IN  /\ DOMAIN tm = UNION {DOMAIN entriesOf(raws[i]) : i \in textIndices(raws)}
        /\ \A k \in DOMAIN tm : tm[k] = entriesOf(raws[lastOf(carriers(raws, k))])[k]

C19_Witness ==
  /\ pc[1] = "done"
  /\ result[1] # <<>>
  /\ LET md == result[1][1]
         raws == md.rawChunks
         tm == md.textMetadata
         A == <<65>>
         B == <<66>>
     IN  /\ {A, B} \subseteq DOMAIN tm
         /\ \E i, j \in carriers(raws, A) :
              /\ i < j
              /\ j = lastOf(carriers(raws, A))
              /\ raws[i].type = iTXt
              /\ raws[j].type = tEXt
              /\ entriesOf(raws[i])[A] # entriesOf(raws[j])[A]
              /\ tm[A] = entriesOf(raws[j])[A]
         /\ \E i \in carriers(raws, B) :
              /\ i < lastOf(carriers(raws, A))
              /\ tm[B] = entriesOf(raws[i])[B]

\* C20: for every recorded chunk with a payload of L bytes, L the recorded
\* length field, RawChunkRecord.data is the lowercase hex of the whole
\* payload, 2*L characters, and ChunkRecord.dataPreview is the hex of the
\* first min(32, L) payload bytes, followed by "..." exactly when L > 32.
C20_PreviewAndRawDataSpellPayload ==
  [][\A c \in Calls : Processes(c) =>
       LET d == data[c]
           ch == lastChunk(metadata'[c])
           raw == lastRawChunk(metadata'[c])
           L == raw.length
       IN  /\ ch.length = L
           /\ Len(d) = L
           /\ Len(raw.data) = 2 * L
           /\ \A i \in 1..Len(raw.data) : isLowerHex(raw.data[i])
           /\ hexToBytes(raw.data) = d
           /\ ch.dataPreview =
                SubSeq(raw.data, 1, 2 * Min(32, L)) \o
                  (IF L > 32 THEN <<46, 46, 46>> ELSE <<>>)]_vars

\* ------------------------------------- claims on the helpers, continued
\* the decimal digits of n, with leading zeros up to w digits
RECURSIVE zeroPadded(_, _)
zeroPadded(n, w) ==
  IF n < 10 /\ w <= 1 THEN <<48 + n>>
  ELSE zeroPadded(n \div 10, w - 1) \o <<48 + (n % 10)>>

\* C21: for every tIME payload of exactly 7 bytes parseTime returns year =
\* byte0*256 + byte1 and month, day, hour, minute, second equal to bytes
\* 2..6 with no range check, and datetime is those values as
\* YYYY-MM-DD HH:MM:SS, the year zero-padded to 4 digits, the others to 2.
C21_ParseTimeFields ==
  (fn = "parseTime" /\ ret # <<>> /\ Len(arg.bytes) = 7) =>
    LET b == arg.bytes IN
    /\ ret[1] # <<>>
    /\ ret[1][1].year = b[1] * 256 + b[2]
    /\ ret[1][1].month = b[3]
    /\ ret[1][1].day = b[4]
    /\ ret[1][1].hour = b[5]
    /\ ret[1][1].minute = b[6]
    /\ ret[1][1].second = b[7]
    /\ ret[1][1].datetime =
         zeroPadded(b[1] * 256 + b[2], 4) \o <<45>> \o zeroPadded(b[3], 2) \o <<45>> \o
         zeroPadded(b[4], 2) \o <<32>> \o zeroPadded(b[5], 2) \o <<58>> \o
         zeroPadded(b[6], 2) \o <<58>> \o zeroPadded(b[7], 2)

\* parseTime passed month 13 through: 2024-13-31 23:59:60
C21_Witness ==
  /\ fn = "parseTime"
  /\ ret # <<>>
  /\ arg.bytes = <<7, 232, 13, 31, 23, 59, 60>>
  /\ ret[1] # <<>>
  /\ ret[1][1].month = 13
  /\ ret[1][1].datetime =
       <<50, 48, 50, 52, 45, 49, 51, 45, 51, 49, 32, 50, 51, 58, 53, 57, 58, 54, 48>>

\* C22: for 0 <= start <= end <= bytes.length, end = 0 and start = end
\* included, bytesToString(bytes, start, end) has end - start characters, the
\* k-th of code bytes[start + k]; with end omitted it covers start to the
\* end of the array.
C22_BytesToStringOneToOne ==
  (fn = "bytesToString" /\ ret # <<>>) =>
    LET n == Len(arg.bytes)
        st == arg.start
        en == IF arg.end = NoEnd THEN n ELSE arg.end[1]
    IN  (st <= en /\ en <= n) =>
          /\ Len(ret[1]) = en - st
          /\ \A k \in 0..(en - st - 1) : ret[1][k + 1] = arg.bytes[st + k + 1]

\* C24: for every IHDR payload of at least 13 bytes parseIHDR returns width
\* and height equal to the unsigned big-endian values of bytes 0..3 and
\* 4..7, and bitDepth, compressionMethod, filterMethod, interlaceMethod equal
\* to bytes 8, 10, 11, 12.
C24_ParseIHDRFields ==
  (fn = "parseIHDR" /\ ret # <<>> /\ Len(arg.bytes) >= 13) =>
    LET b == arg.bytes IN
    /\ ~ret[1].threw
    /\ ret[1].value.width >= 0
    /\ ret[1].value.width \div 16777216 = b[1]
    /\ ret[1].value.width % 16777216 = b[2] * 65536 + b[3] * 256 + b[4]
    /\ ret[1].value.height >= 0
    /\ ret[1].value.height \div 16777216 = b[5]
    /\ ret[1].value.height % 16777216 = b[6] * 65536 + b[7] * 256 + b[8]
    /\ ret[1].value.bitDepth = b[9]
    /\ ret[1].value.compressionMethod = b[11]
    /\ ret[1].value.filterMethod = b[12]
    /\ ret[1].value.interlaceMethod = b[13]

\* ----------------------------------------------- claims about the walk
\* C23: processing a chunk whose type is none of IHDR, tEXt, iTXt, tIME
\* (zTXt, IEND and every unrecognised type) appends one record to chunks and
\* one to rawChunks, leaves imageInfo, textMetadata and timestamp as they
\* were and raises no error.
C23_OtherChunkRecordedOnly ==
  [][\A c \in Calls :
       (Processes(c) /\ headerType(header[c]) \notin {IHDR, tEXt, iTXt, tIME}) =>
         LET old == metadata[c][1]
             new == metadata'[c][1]
         IN  /\ Len(new.chunks) = Len(old.chunks) + 1
             /\ Len(new.rawChunks) = Len(old.rawChunks) + 1
             /\ SubSeq(new.chunks, 1, Len(old.chunks)) = old.chunks
             /\ SubSeq(new.rawChunks, 1, Len(old.rawChunks)) = old.rawChunks
             /\ lastChunk(metadata'[c]).type = headerType(header[c])
             /\ new.imageInfo = old.imageInfo
             /\ new.textMetadata = old.textMetadata
             /\ new.timestamp = old.timestamp
             /\ err'[c] = <<>>
             /\ pc'[c] # "failed"]_vars

\* a zTXt chunk with a keyword was recorded after a tEXt chunk and added no
\* entry
C23_Witness ==
  /\ pc[1] = "done"
  /\ result[1] # <<>>
  /\ LET md == result[1][1] IN
     /\ Len(md.rawChunks) = 3
     /\ md.rawChunks[1].type = tEXt
     /\ md.rawChunks[2].type = zTXt
     /\ md.rawChunks[2].data = <<52, 50, 48, 48, 48, 48, 52, 98>>
     /\ md.rawChunks[3].type = IEND
     /\ DOMAIN md.textMetadata = {<<65>>}

\* 8 plus the extents 12 + length of the records
RECURSIVE endOfExtents(_)
endOfExtents(raws) ==
  IF raws = <<>> THEN 8
  ELSE endOfExtents(SubSeq(raws, 1, Len(raws) - 1)) + 12 + raws[Len(raws)].length

\* C25: at the start of every iteration offset is 8 plus the sum of
\* 12 + length over the chunks recorded so far; every recorded chunk has a
\* length >= 0 and an extent inside [8, fileSize]; the extents of successive
\* chunks are disjoint and increasing; at most (fileSize - 8) / 12 chunks
\* are recorded.
C25_ExtentsTileTheFile ==
  \A c \in Calls : metadata[c] # <<>> =>
    LET raws == metadata[c][1].rawChunks
        size == Len(file[c].bytes)
    IN  /\ pc[c] = "header" => offset[c] = endOfExtents(raws)
        /\ \A i \in 1..Len(raws) :
             /\ raws[i].length >= 0
             /\ endOfExtents(SubSeq(raws, 1, i)) <= size
             /\ endOfExtents(SubSeq(raws, 1, i - 1)) < endOfExtents(SubSeq(raws, 1, i))
        /\ 12 * Len(raws) <= size - 8

\* ------------------------------------- the application: handleFile calls
\* main.ts line 116: file.type.includes("png")
isPng(f) == f.type \in {"image/png", "image/x-png"}

\* the shown error of line 117
NotPng == "NotPng"

\* URL.createObjectURL(file) of line 136 returns a URL no earlier call
\* returned: the URL made by handleFile call c is named by c
objectUrl(c) == c

\* line 123 hides the error element
hideError == <<>>

\* the files the user supplies: A to the first call, B to the second.  A
\* holds more chunks than B, so either analysis can finish first.
FilesA ==
  {[name |-> "a.png", type |-> "image/png",
    bytes |-> expectedSignature \o cIHDR \o cTIME \o cIEND],
   [name |-> "a.png", type |-> "image/png",
    bytes |-> expectedSignature \o cTEXT \o cIHDRshort \o cIEND],
   [name |-> "a.txt", type |-> "text/plain", bytes |-> <<65, 66>>]}

FilesB ==
  {[name |-> "b.png", type |-> "image/png", bytes |-> expectedSignature \o cIEND],
   [name |-> "b.png", type |-> "image/x-png", bytes |-> BadSignature(1) \o cIEND],
   [name |-> "b.gif", type |-> "image/gif", bytes |-> expectedSignature \o cIEND]}

\* lines 114-131: the type test, the loading indicator, the revocation of
\* the previous URL and the call of analyze up to its first awaited read
\* (line 222).  The user supplies A, then B.
HandleFile(c) ==
  /\ hpc[c] = "idle"
  /\ \A c1 \in Calls : c1 < c => hpc[c1] # "idle"
  /\ IF ~isPng(file[c])
       THEN /\ errorShown' = <<NotPng>>
            /\ hpc' = [hpc EXCEPT ![c] = "done"]
            /\ UNCHANGED <<loading, revokedUrls, pc, nreads>>
       ELSE /\ loading' = TRUE
            /\ errorShown' = hideError
            /\ revokedUrls' = revokedUrls \cup
                 (IF currentImageUrl # <<>> THEN {currentImageUrl[1]} ELSE {})
            /\ hpc' = [hpc EXCEPT ![c] = "awaiting"]
            /\ pc' = [pc EXCEPT ![c] = "sig"]
            /\ nreads' = [nreads EXCEPT ![c] = @ + 1]
  /\ UNCHANGED <<currentMetadata, currentImageUrl, displayed, exported>>
  /\ UNCHANGED <<swVars, fn, arg, ret, file, offset, header, data, metadata, result, err>>

\* lines 132-149: analyze has settled, and the continuation of the call
\* runs whatever other call was made meanwhile.  On success the metadata and a new
\* URL are stored and displayResults (lines 158-186) shows them; on failure
\* the message is shown.
ResumeHandleFile(c) ==
  /\ hpc[c] = "awaiting"
  /\ pc[c] \in {"done", "failed"}
  /\ hpc' = [hpc EXCEPT ![c] = "done"]
  /\ loading' = FALSE
  /\ IF pc[c] = "done"
       THEN /\ currentMetadata' = result[c]
            /\ currentImageUrl' = <<objectUrl(c)>>
            /\ displayed' = <<[metadata |-> result[c][1], url |-> objectUrl(c)]>>
            /\ UNCHANGED errorShown
       ELSE /\ errorShown' = err[c]
            /\ UNCHANGED <<currentMetadata, currentImageUrl, displayed>>
  /\ UNCHANGED <<revokedUrls, exported>>
  /\ UNCHANGED <<swVars, fn, arg, ret, file, pc, offset, header, data, metadata, result,
                 err, nreads>>

\* lines 462-478: the export button writes currentMetadata, if there is one
exportResults ==
  /\ IF currentMetadata = <<>>
       THEN UNCHANGED exported
       ELSE exported' = <<[download |-> currentMetadata[1].fileName, data |-> currentMetadata[1]]>>
  /\ UNCHANGED <<hpc, currentMetadata, currentImageUrl, revokedUrls, displayed, loading,
                 errorShown>>
  /\ UNCHANGED <<swVars, fn, arg, ret, file, pc, offset, header, data, metadata, result,
                 err, nreads>>

NextApp ==
  \/ \E c \in Calls :
       \/ HandleFile(c)
       \/ CheckSignature(c)
       \/ ReadHeader(c)
       \/ ReadData(c)
       \/ ProcessChunk(c)
       \/ ResumeHandleFile(c)
  \/ exportResults

InitApp ==
  /\ \E a \in FilesA, b \in FilesB : file = [c \in Calls |-> IF c = 1 THEN a ELSE b]
  /\ pc = [c \in Calls |-> "idle"]
  /\ InitCommon

SpecApp == InitApp /\ [][NextApp]_vars

\* the analysis of call c returned a Metadata
succeeded(c) == hpc[c] = "done" /\ pc[c] = "done"

\* C26: when A and then B are supplied, once both handleFile calls are
\* done currentMetadata, currentImageUrl and the displayed results belong
\* to the most recently selected file whose analysis succeeded (B if its
\* analysis succeeded), and currentMetadata is never paired with the image
\* URL of another file.
C26_LatestSelectionWins ==
  /\ (hpc[1] = "done" /\ hpc[2] = "done" /\ (succeeded(1) \/ succeeded(2))) =>
       LET latest == IF succeeded(2) THEN 2 ELSE 1 IN
       /\ currentMetadata = result[latest]
       /\ currentImageUrl = <<objectUrl(latest)>>
       /\ displayed = <<[metadata |-> result[latest][1], url |-> objectUrl(latest)]>>
  /\ (currentMetadata # <<>> /\ currentImageUrl # <<>>) =>
       currentMetadata = result[currentImageUrl[1]]

\* --------------------------------- the service worker: the fetch handler
\* fetch events delivered to the handler
MaxFetchEvents == 3

Urls == {"./index.html", "./app.js"}
Requests == {[method |-> m, url |-> u] : m \in {"GET", "POST"}, u \in Urls}

\* status codes the network answers with: 200, another success code, an
\* error code
Statuses == {200, 204, 404}

\* a response: its status and where it came from, 0 for the copy stored
\* when the worker was installed (lines 29-60), i for the network's answer
\* to the fetch of event i
installedResponse == [status |-> 200, from |-> 0]
networkResponse(i, st) == [status |-> st, from |-> i]

\* the cache after install: empty, or holding the local asset of line 13
noResponses == [u \in {} |-> installedResponse]
installedCache == [u \in {"./index.html"} |-> installedResponse]

\* lines 97-99: a request that is not a GET is left alone
handlesRequest(request) == request.method = "GET"

\* every successful status stored
cacheableSuccess(response) == response.status >= 200 /\ response.status < 300

\* line 112: networkResponse && networkResponse.status === 200
cacheable(response) == response.status = 200

\* cache.put(request, response)
cachePut(c, url, response) ==
  [u \in (DOMAIN c) \cup {url} |-> IF u = url THEN response ELSE c[u]]

\* lines 93-103: a fetch event arrives; for a GET respondWith is called and
\* caches.match is issued
FetchEvent(r) ==
  /\ Len(events) < MaxFetchEvents
  /\ events' = Append(events,
       [request |-> r,
        stage |-> IF handlesRequest(r) THEN "matching" ELSE "ignored",
        respondWith |-> handlesRequest(r),
        response |-> <<>>,
        networkFetch |-> FALSE,
        put |-> <<>>])
  /\ UNCHANGED cache
  /\ UNCHANGED <<appVars, file, pc, offset, header, data, metadata, result, err, nreads,
                 fn, arg, ret>>

\* lines 103-110: caches.match resolves; the cached response is returned,
\* or the network fetch is issued
MatchResolves(i) ==
  /\ i \in 1..Len(events)
  /\ events[i].stage = "matching"
  /\ LET url == events[i].request.url IN
     events' = IF url \in DOMAIN cache
                 THEN [events EXCEPT ![i].stage = "settled", ![i].response = <<cache[url]>>]
                 ELSE [events EXCEPT ![i].stage = "fetching", ![i].networkFetch = TRUE]
  /\ UNCHANGED cache
  /\ UNCHANGED <<appVars, file, pc, offset, header, data, metadata, result, err, nreads,
                 fn, arg, ret>>

\* lines 110-120: the network answers; a clone of a response of status 200
\* is handed to caches.open(...).then(put), the response is returned
NetworkResponds(i, st) ==
  /\ i \in 1..Len(events)
  /\ events[i].stage = "fetching"
  /\ LET response == networkResponse(i, st) IN
     events' = [events EXCEPT ![i].stage = "settled",
                              ![i].response = <<response>>,
                              ![i].put = IF cacheable(response) THEN <<response>> ELSE <<>>]
  /\ UNCHANGED cache
  /\ UNCHANGED <<appVars, file, pc, offset, header, data, metadata, result, err, nreads,
                 fn, arg, ret>>

\* lines 121-124: the fetch rejects, the catch returns undefined
NetworkFails(i) ==
  /\ i \in 1..Len(events)
  /\ events[i].stage = "fetching"
  /\ events' = [events EXCEPT ![i].stage = "settled"]
  /\ UNCHANGED cache
  /\ UNCHANGED <<appVars, file, pc, offset, header, data, metadata, result, err, nreads,
                 fn, arg, ret>>

\* lines 114-117: caches.open resolves and the clone is put in the cache
CachePut(i) ==
  /\ i \in 1..Len(events)
  /\ events[i].put # <<>>
  /\ cache' = cachePut(cache, events[i].request.url, events[i].put[1])
  /\ events' = [events EXCEPT ![i].put = <<>>]
  /\ UNCHANGED <<appVars, file, pc, offset, header, data, metadata, result, err, nreads,
                 fn, arg, ret>>

NextSw ==
  \/ \E r \in Requests : FetchEvent(r)
  \/ \E i \in 1..MaxFetchEvents :
       \/ MatchResolves(i)
       \/ \E st \in Statuses : NetworkResponds(i, st)
       \/ NetworkFails(i)
       \/ CachePut(i)

InitSw ==
  /\ cache \in {noResponses, installedCache}
  /\ events = <<>>
  /\ file = [c \in Calls |-> NoFile]
  /\ pc = [c \in Calls |-> "idle"]
  /\ offset = [c \in Calls |-> 0]
  /\ header = [c \in Calls |-> <<>>]
  /\ data = [c \in Calls |-> <<>>]
  /\ metadata = [c \in Calls |-> <<>>]
  /\ result = [c \in Calls |-> <<>>]
  /\ err = [c \in Calls |-> <<>>]
  /\ nreads = [c \in Calls |-> 0]
  /\ fn = "none"
  /\ arg = <<>>
  /\ ret = <<>>
  /\ InitAppIdle

SpecSw == InitSw /\ [][NextSw]_vars

\* C27: the fetch handler is cache-first.  A GET with a matching cache
\* entry is answered with the cached response and never fetched from the
\* network; a GET without one is fetched, answered with the network's
\* response, and a copy is stored only when the status is 200; a request
\* that is not a GET is never answered or cached by the handler.
C27_CacheFirst ==
  [][/\ \A i \in 1..Len(events') :
          events'[i].request.method # "GET" =>
            /\ ~events'[i].respondWith
            /\ events'[i].response = <<>>
            /\ ~events'[i].networkFetch
            /\ events'[i].put = <<>>
     /\ \A i \in 1..Len(events) :
          LET url == events[i].request.url IN
          /\ (events[i].stage = "matching" /\ events'[i].stage # "matching") =>
               IF url \in DOMAIN cache
                 THEN /\ events'[i].response = <<cache[url]>>
                      /\ ~events'[i].networkFetch
                      /\ events'[i].stage = "settled"
                      /\ events'[i].put = <<>>
                 ELSE /\ events'[i].networkFetch
                      /\ events'[i].response = <<>>
          /\ events[i].stage = "settled" =>
               /\ events'[i].response = events[i].response
               /\ events'[i].networkFetch = events[i].networkFetch
          /\ (events[i].stage = "fetching" /\ events'[i].response # <<>>) =>
               /\ events'[i].response[1].from = i
               /\ IF events'[i].response[1].status = 200
                    THEN events'[i].put = events'[i].response
                    ELSE events'[i].put = <<>>
     /\ cache' # cache =>
          \E i \in 1..Len(events) :
            LET url == events[i].request.url IN
            /\ events[i].request.method = "GET"
            /\ events[i].networkFetch
            /\ events[i].response # <<>>
            /\ events[i].response[1].status = 200
            /\ DOMAIN cache' = (DOMAIN cache) \cup {url}
            /\ cache'[url] = events[i].response[1]
            /\ \A u \in (DOMAIN cache) \ {url} : cache'[u] = cache[u]]_vars

\* a GET missed the cache, was fetched with status 200 and stored; a later
\* GET of the same URL was answered with the stored copy and not fetched; a
\* POST was left alone
C27_Witness ==
  /\ Len(events) = 3
  /\ events[1].request = [method |-> "GET", url |-> "./app.js"]
  /\ events[1].networkFetch
  /\ events[1].response = <<networkResponse(1, 200)>>
  /\ "./app.js" \in DOMAIN cache
  /\ cache["./app.js"] = networkResponse(1, 200)
  /\ events[2].request = [method |-> "GET", url |-> "./app.js"]
  /\ events[2].stage = "settled"
  /\ ~events[2].networkFetch
  /\ events[2].response = <<networkResponse(1, 200)>>
  /\ events[3].request.method = "POST"
  /\ events[3].stage = "ignored"
====
